---- MODULE Spec2Model ----
(***************************************************************************)
(* Model of obsub.py: the `event` descriptor and the `signal` objects it   *)
(* hands out.  The state is the per-instance attribute dictionaries, the   *)
(* heap of handler-list objects they point at, the activation of           *)
(* signal.__call__ that is in progress, if any, and the exception the last *)
(* operation raised.  The program is single-threaded: while a dispatch is  *)
(* in progress only the code it runs (the decorated function and the       *)
(* handlers) can act.                                                      *)
(*                                                                         *)
(* regs is a history variable, no part of the program: for each instance   *)
(* and event, the registrations asked for on that instance's event and not *)
(* yet taken back, in the order they were asked for.                       *)
(*                                                                         *)
(* held is the variable of the caller that keeps a signal it got from an   *)
(* attribute access (s = a.progress), empty when no signal is kept.        *)
(***************************************************************************)
EXTENDS Integers, Sequences, FiniteSets, TLC

VARIABLES descr, dict, heap, call, exc, regs, held

vars == <<descr, dict, heap, call, exc, regs, held>>

-----------------------------------------------------------------------------
(* Bounds and the small sets the inputs are drawn from *)

MaxRegs == 3

Instances == {"a", "b"}

Handlers == {"h1", "h2"}

Values == {"r0", "r1"}

None == "None"

(* The decorated functions the classes are built from, each with its       *)
(* parameters after self: the doctest's progress(self, first, second) and  *)
(* saved(self, instance), an event that hands an object to its handlers.   *)
Functions == [progress |-> <<"first", "second">>, saved |-> <<"instance">>]

(* a call's arguments: the number of positional ones and the keyword names *)
ArgSets ==
    { [npos |-> 2, kw |-> {}],                    \* a.progress("Hello", "World")
      [npos |-> 0, kw |-> {"second"}],            \* c.progress(second="World")
      [npos |-> 1, kw |-> {}],
      [npos |-> 0, kw |-> {"instance"}],
      [npos |-> 1, kw |-> {"first"}],
      [npos |-> 3, kw |-> {}],
      [npos |-> 2, kw |-> {"third"}] }

-----------------------------------------------------------------------------
(* Pure helpers: python list operations *)

RECURSIVE IndexOf(_, _, _)
IndexOf(s, x, k) ==
    IF k > Len(s) THEN 0
    ELSE IF s[k] = x THEN k
    ELSE IndexOf(s, x, k + 1)

Contains(s, x) == IndexOf(s, x, 1) # 0

RemoveAt(s, k) == SubSeq(s, 1, k - 1) \o SubSeq(s, k + 1, Len(s))

RECURSIVE LastIndexOf(_, _, _)
LastIndexOf(s, x, k) ==
    IF k = 0 THEN 0
    ELSE IF s[k] = x THEN k
    ELSE LastIndexOf(s, x, k - 1)

(* a removal that drops the last element equal to x *)
ListRemoveLast(s, x) == RemoveAt(s, LastIndexOf(s, x, Len(s)))

(* list.remove(x): drops the first element equal to x *)
ListRemove(s, x) == RemoveAt(s, IndexOf(s, x, 1))

(* list.insert(0, x) in the place of list.append(x) *)
ListPrepend(s, x) == <<x>> \o s

(* list.append(x) *)
ListAppend(s, x) == Append(s, x)

(* s[:] : a shallow copy *)
ListCopy(s) == [k \in 1..Len(s) |-> s[k]]

Count(s, x) == Cardinality({k \in 1..Len(s) : s[k] = x})

-----------------------------------------------------------------------------
(* event.__init__: the descriptor made at class definition time *)

(* one attribute name for the lists of all the events *)
EventKeyShared(name) == " handlers"

EventKey(name) == " " \o name

EventInit(name) ==
    [function |-> name, key |-> EventKey(name), signature |-> Functions[name]]

(* the binding of a call's arguments to the parameters sig of a function,  *)
(* self being supplied                                                     *)
Binds(sig, args) ==
    /\ args.npos <= Len(sig)
    /\ args.kw \subseteq {sig[k] : k \in 1..Len(sig)}
    /\ \A k \in 1..Len(sig) :
          (k <= args.npos) # (sig[k] \in args.kw)

-----------------------------------------------------------------------------
(* event.__get__, instance branch: a signal over the instance's list, the  *)
(* list being created and stored on the instance when it is missing.       *)

(* one list per event, shared by the instances, in the place of one per    *)
(* instance                                                                *)
GetListOfClass(d, hp, i, e) ==
    LET k == descr[e].key
        owners == {j \in Instances : k \in DOMAIN d[j]}
    IN  IF k \in DOMAIN d[i]
        THEN [dict |-> d, heap |-> hp, id |-> d[i][k]]
        ELSE IF owners # {}
        THEN [dict |-> [d EXCEPT ![i] = @ @@ (k :> d[CHOOSE j \in owners : TRUE][k])],
              heap |-> hp,
              id   |-> d[CHOOSE j \in owners : TRUE][k]]
        ELSE [dict |-> [d EXCEPT ![i] = @ @@ (k :> Len(hp) + 1)],
              heap |-> Append(hp, <<>>),
              id   |-> Len(hp) + 1]

(* a new list made and stored at every access, the one the instance has    *)
(* being replaced                                                          *)
GetListAnew(d, hp, i, e) ==
    [dict |-> [d EXCEPT ![i] = (descr[e].key :> Len(hp) + 1) @@ @],
     heap |-> Append(hp, <<>>),
     id   |-> Len(hp) + 1]

GetList(d, hp, i, e) ==
    IF descr[e].key \in DOMAIN d[i]
    THEN [dict |-> d, heap |-> hp, id |-> d[i][descr[e].key]]
    ELSE [dict |-> [d EXCEPT ![i] = @ @@ (descr[e].key :> Len(hp) + 1)],
          heap |-> Append(hp, <<>>),
          id   |-> Len(hp) + 1]

SignalInit(function, evt_handlers) ==
    [function |-> function, handlers |-> evt_handlers]

(* an access that empties the list the instance has *)
GetEmptied(d, hp, i, e) ==
    LET g == GetList(d, hp, i, e)
    IN  [dict |-> g.dict, heap |-> [g.heap EXCEPT ![g.id] = <<>>],
         sig  |-> SignalInit([func |-> descr[e].function, self |-> i], g.id)]

Get(d, hp, i, e) ==
    LET g == GetList(d, hp, i, e)
    IN  [dict |-> g.dict, heap |-> g.heap,
         sig  |-> SignalInit([func |-> descr[e].function, self |-> i], g.id)]

(* connect that skips a handler already in the list *)
SigConnectOnce(hp, sig, h) ==
    IF Contains(hp[sig.handlers], h)
    THEN [heap |-> hp, exc |-> None]
    ELSE [heap |-> [hp EXCEPT ![sig.handlers] = Append(@, h)], exc |-> None]

(* disconnect that passes over a handler that is not in the list *)
SigDisconnectQuiet(hp, sig, h) ==
    IF Contains(hp[sig.handlers], h)
    THEN [heap |-> [hp EXCEPT ![sig.handlers] = RemoveAt(@, IndexOf(@, h, 1))], exc |-> None]
    ELSE [heap |-> hp, exc |-> None]

(* signal.connect / signal.disconnect on heap hp *)
SigConnect(hp, sig, h) ==
    [heap |-> [hp EXCEPT ![sig.handlers] = ListAppend(@, h)], exc |-> None]

SigDisconnect(hp, sig, h) ==
    IF Contains(hp[sig.handlers], h)
    THEN [heap |-> [hp EXCEPT ![sig.handlers] = ListRemove(@, h)], exc |-> None]
    ELSE [heap |-> hp, exc |-> "ValueError"]

(* the contents of instance i's handler list of event e; empty when the    *)
(* list has not been created yet                                           *)
HandlersOf(i, e) ==
    IF descr[e].key \in DOMAIN dict[i] THEN heap[dict[i][descr[e].key]] ELSE <<>>

-----------------------------------------------------------------------------
(* What the body of the decorated function, or of a handler, does when it *)
(* runs: it returns, it raises, or it connects or disconnects a handler on *)
(* some instance's event (instance.event.connect(h)) and then returns.     *)
(* A body does one of these a call; it does not invoke an event itself, so *)
(* that one dispatch is in progress at a time.                             *)
Effects ==
    [op : {"return", "raise"}]
    \cup [op : {"connect", "disconnect"}, inst : DOMAIN dict, evt : DOMAIN descr, h : Handlers]

RunBody(d, hp, eff) ==
    IF eff.op = "return" THEN [dict |-> d, heap |-> hp, exc |-> None]
    ELSE IF eff.op = "raise" THEN [dict |-> d, heap |-> hp, exc |-> "Error"]
    ELSE LET g == Get(d, hp, eff.inst, eff.evt)
             r == IF eff.op = "connect"
                  THEN SigConnect(g.heap, g.sig, eff.h)
                  ELSE SigDisconnect(g.heap, g.sig, eff.h)
         IN  [dict |-> g.dict, heap |-> r.heap, exc |-> r.exc]

(* the history variable after connect(h) or disconnect(h) was asked for on *)
(* instance i's event e                                                    *)
Asked(rg, op, i, e, h) ==
    IF op = "connect" THEN [rg EXCEPT ![i][e] = Append(@, h)]
    ELSE IF op = "disconnect" /\ Contains(rg[i][e], h)
         THEN [rg EXCEPT ![i][e] = RemoveAt(@, IndexOf(@, h, 1))]
    ELSE rg

AskedBy(rg, eff) ==
    IF eff.op \in {"connect", "disconnect"}
    THEN Asked(rg, eff.op, eff.inst, eff.evt, eff.h)
    ELSE rg

(* the bound on the number of registrations in all handler lists together *)
RECURSIVE Registrations(_, _)
Registrations(hp, k) ==
    IF k > Len(hp) THEN 0 ELSE Len(hp[k]) + Registrations(hp, k + 1)

Admissible(eff) ==
    eff.op = "connect" => Registrations(heap, 1) < MaxRegs

-----------------------------------------------------------------------------
Idle ==
    [pc |-> "idle"]

(* a class with the events named is defined and the instances insts of it  *)
(* are made                                                                *)
StartOf(insts, names) ==
    /\ descr = [e \in names |-> EventInit(e)]
    /\ dict = [i \in insts |-> <<>>]
    /\ heap = <<>>
    /\ call = Idle
    /\ exc = None
    /\ regs = [i \in insts |-> [e \in names |-> <<>>]]
    /\ held = <<>>

Start(names) == StartOf(Instances, names)

Init == Start({"progress"})

InitSaved == Start({"saved"})

Events == DOMAIN descr

(* the instances that were made *)
Objects == DOMAIN dict

(* The signal kept carries two notes, no part of the program: own tells    *)
(* that the contents of its list were changed through the signal itself    *)
(* since it was obtained, others that they were changed through another    *)
(* access.  Seen notes a change from heap hp to heap hp2.                  *)
Seen(hd, hp, hp2, who) ==
    IF hd = <<>> THEN hd
    ELSE IF hp2[hd[1].sig.handlers] = hp[hd[1].sig.handlers] THEN hd
    ELSE IF who = "own" THEN <<[hd[1] EXCEPT !.own = TRUE]>>
    ELSE <<[hd[1] EXCEPT !.others = TRUE]>>

(* i.e.connect(h) *)
Connect(i, e, h) ==
    /\ call.pc = "idle"
    /\ Registrations(heap, 1) < MaxRegs
    /\ LET g == Get(dict, heap, i, e)
           r == SigConnect(g.heap, g.sig, h)
       IN  /\ dict' = g.dict
           /\ heap' = r.heap
           /\ exc' = r.exc
           /\ held' = Seen(held, heap, r.heap, "others")
    /\ regs' = Asked(regs, "connect", i, e, h)
    /\ UNCHANGED <<descr, call>>

(* i.e.disconnect(h) *)
Disconnect(i, e, h) ==
    /\ call.pc = "idle"
    /\ LET g == Get(dict, heap, i, e)
           r == SigDisconnect(g.heap, g.sig, h)
       IN  /\ dict' = g.dict
           /\ heap' = r.heap
           /\ exc' = r.exc
           /\ held' = Seen(held, heap, r.heap, "others")
    /\ regs' = Asked(regs, "disconnect", i, e, h)
    /\ UNCHANGED <<descr, call>>

-----------------------------------------------------------------------------
(* a call that goes to the handlers at once, the decorated function not    *)
(* being called, so that nothing checks the arguments                      *)
SigCallEnterUnchecked(hp, sig, args) ==
    [pc       |-> "loop",
     via      |-> "instance",
     sig      |-> sig,
     args     |-> args,
     result   |-> None,
     snapshot |-> hp[sig.handlers],
     idx      |-> 1,
     log      |-> <<>>,
     selfdisc |-> [h \in Handlers |-> 0],
     others   |-> FALSE,
     asked    |-> hp[sig.handlers],
     retval   |-> None]

(* signal.__call__, entered at line 204: the call of the partial object    *)
(* binds the arguments to the decorated function's parameters and fails    *)
(* with TypeError, before the function's body runs, when they do not fit.  *)
SigCallEnter(hp, sig, args) ==
    [pc       |-> IF Binds(Functions[sig.function.func], args) THEN "base" ELSE "raised",
     via      |-> "instance",
     sig      |-> sig,
     args     |-> args,
     result   |-> None,
     snapshot |-> <<>>,
     idx      |-> 0,
     log      |-> <<>>,
     selfdisc |-> [h \in Handlers |-> 0],
     others   |-> FALSE,
     asked    |-> <<>>,
     retval   |-> None]

EnterExc(c) == IF c.pc = "raised" THEN "TypeError" ELSE None

(* i.e(args) *)
Invoke(i, e, args) ==
    /\ call.pc = "idle"
    /\ LET g == Get(dict, heap, i, e)
       IN  /\ dict' = g.dict
           /\ heap' = g.heap
           /\ call' = SigCallEnter(g.heap, g.sig, args)
           /\ exc' = EnterExc(SigCallEnter(g.heap, g.sig, args))
    /\ UNCHANGED <<descr, regs, held>>

(* Klass.e(i, args): event.__get__ with instance None returns wrapper.     *)
(* The call of wrapper(instance, *args, **kwargs) binds i to its parameter *)
(* instance: a keyword argument of that name is a second value for it and  *)
(* the call fails with TypeError before anything else is done.  Otherwise  *)
(* wrapper calls self.__get__(instance, owner)(args).                      *)
NoSignal(i, e) == SignalInit([func |-> descr[e].function, self |-> i], 0)

UnboundWrapper(d, hp, i, e, args) ==
    IF "instance" \in args.kw
    THEN [dict |-> d, heap |-> hp,
          call |-> [SigCallEnter(hp, NoSignal(i, e), args) EXCEPT !.pc = "raised"]]
    ELSE LET g == Get(d, hp, i, e)
         IN  [dict |-> g.dict, heap |-> g.heap,
              call |-> SigCallEnter(g.heap, g.sig, args)]

(* the record of a dispatch notes the way it was entered *)
Via(c, how) == [c EXCEPT !.via = how]

InvokeUnbound(i, e, args) ==
    /\ call.pc = "idle"
    /\ LET w == UnboundWrapper(dict, heap, i, e, args)
       IN  /\ dict' = w.dict
           /\ heap' = w.heap
           /\ call' = Via(w.call, "class")
           /\ exc' = EnterExc(w.call)
    /\ UNCHANGED <<descr, regs, held>>

(* One entry of the record of a dispatch: who was called, with which      *)
(* arguments, what the callee raised and what it returned (kept for the    *)
(* decorated function only).                                               *)
LogEntry(c, callee, r, x) ==
    [callee |-> callee,
     args   |-> c.args,
     exc    |-> x,
     ret    |-> IF callee = "base" /\ x = None THEN r ELSE None]

Logged(c, entry) == [c EXCEPT !.log = Append(@, entry)]

(* What a handler did to the list being dispatched is noted in the record  *)
(* of the dispatch: selfdisc[h] counts the times h took a registration of  *)
(* itself off the list while it ran, others tells that a handler changed   *)
(* the list in any other way.                                              *)
OnOwnList(c, eff) ==
    /\ eff.op \in {"connect", "disconnect"}
    /\ eff.inst = c.sig.function.self
    /\ eff.evt = c.sig.function.func

Noted(c, callee, eff, x) ==
    IF x # None \/ ~OnOwnList(c, eff) THEN c
    ELSE IF eff.op = "disconnect" /\ eff.h = callee
         THEN [c EXCEPT !.selfdisc[callee] = @ + 1]
    ELSE [c EXCEPT !.others = TRUE]

(* handlers that run although the decorated function raised *)
AfterBaseAnyway(c, hp, r, x) ==
    [c EXCEPT !.pc = "loop",
              !.result = r,
              !.snapshot = hp[c.sig.handlers],
              !.idx = 1]

(* a copy of the handler list made when the call is entered, before the    *)
(* decorated function runs                                                 *)
AfterBaseCopiedFirst(c, hp, r, x) ==
    IF x # None
    THEN [c EXCEPT !.pc = "raised"]
    ELSE [c EXCEPT !.pc = "loop",
                   !.result = r,
                   !.snapshot = ListCopy(heap[c.sig.handlers]),
                   !.idx = 1]

(* line 204, the body of the decorated function, then line 206's copy of   *)
(* the handler list                                                        *)
AfterBase(c, hp, r, x) ==
    IF x # None
    THEN [c EXCEPT !.pc = "raised"]
    ELSE [c EXCEPT !.pc = "loop",
                   !.result = r,
                   !.snapshot = ListCopy(hp[c.sig.handlers]),
                   !.idx = 1]

(* the record of a dispatch notes the registrations asked for on its      *)
(* instance's event when the decorated function has run                    *)
AskedAt(c, rg) == [c EXCEPT !.asked = rg[c.sig.function.self][c.sig.function.func]]

BaseBody(eff, r) ==
    /\ call.pc = "base"
    /\ Admissible(eff)
    /\ LET b == RunBody(dict, heap, eff)
       IN  /\ dict' = b.dict
           /\ heap' = b.heap
           /\ exc' = b.exc
           /\ call' = AskedAt(Logged(AfterBase(call, b.heap, r, b.exc),
                                     LogEntry(call, "base", r, b.exc)),
                              AskedBy(regs, eff))
           /\ held' = Seen(held, heap, b.heap, "others")
    /\ regs' = AskedBy(regs, eff)
    /\ UNCHANGED descr

(* a loop over the list itself, not over a copy of it *)
IteratedLive(c, hp) == hp[c.sig.handlers]

(* a loop over the copy that passes over the handlers that are no longer   *)
(* in the list                                                             *)
IteratedPruned(c, hp) ==
    SelectSeq(c.snapshot, LAMBDA f : Contains(hp[c.sig.handlers], f))

(* line 206: the loop runs over the copy made when it began *)
Iterated(c, hp) == c.snapshot

(* a loop that goes on to the next handler when one raises *)
AfterHandlerGoOn(c, r, x) == [c EXCEPT !.idx = @ + 1]

(* a loop that keeps the value of the handler it called *)
AfterHandlerKeep(c, r, x) ==
    IF x # None
    THEN [c EXCEPT !.pc = "raised"]
    ELSE [c EXCEPT !.idx = @ + 1, !.result = r]

(* line 207, one iteration: f(args), its value dropped *)
AfterHandler(c, r, x) ==
    IF x # None
    THEN [c EXCEPT !.pc = "raised"]
    ELSE [c EXCEPT !.idx = @ + 1]

HandlerStep(eff, r) ==
    /\ call.pc = "loop"
    /\ call.idx <= Len(Iterated(call, heap))
    /\ Admissible(eff)
    /\ LET f == Iterated(call, heap)[call.idx]
           b == RunBody(dict, heap, eff)
       IN  /\ dict' = b.dict
           /\ heap' = b.heap
           /\ exc' = b.exc
           /\ call' = Noted(Logged(AfterHandler(call, r, b.exc),
                                   LogEntry(call, f, r, b.exc)),
                            f, eff, b.exc)
           /\ held' = Seen(held, heap, b.heap, "others")
    /\ regs' = AskedBy(regs, eff)
    /\ UNCHANGED descr

(* line 208 *)
SigReturn(c) == [c EXCEPT !.pc = "returned", !.retval = c.result]

Return ==
    /\ call.pc = "loop"
    /\ call.idx > Len(Iterated(call, heap))
    /\ call' = SigReturn(call)
    /\ UNCHANGED <<descr, dict, heap, exc, regs, held>>

(* the caller has the value, or the exception, and goes on *)
Complete ==
    /\ call.pc \in {"returned", "raised"}
    /\ call' = Idle
    /\ exc' = None
    /\ UNCHANGED <<descr, dict, heap, regs, held>>

Next ==
    \/ \E i \in Objects, e \in Events, h \in Handlers : Connect(i, e, h)
    \/ \E i \in Objects, e \in Events, h \in Handlers : Disconnect(i, e, h)
    \/ \E i \in Objects, e \in Events, args \in ArgSets : Invoke(i, e, args)
    \/ \E i \in Objects, e \in Events, args \in ArgSets : InvokeUnbound(i, e, args)
    \/ \E eff \in Effects, r \in Values : BaseBody(eff, r)
    \/ \E eff \in Effects, r \in Values : HandlerStep(eff, r)
    \/ Return
    \/ Complete

Spec == Init /\ [][Next]_vars

SpecSaved == InitSaved /\ [][Next]_vars

-----------------------------------------------------------------------------
(* A caller that keeps the signal of one attribute access and uses it      *)
(* later, next to the accesses the other operations make.                  *)

(* the signal kept, with its notes *)
Kept(sig) == <<[sig |-> sig, own |-> FALSE, others |-> FALSE]>>

(* s = i.e *)
Access(i, e) ==
    /\ call.pc = "idle"
    /\ held = <<>>
    /\ LET g == Get(dict, heap, i, e)
       IN  /\ dict' = g.dict
           /\ heap' = g.heap
           /\ held' = Kept(g.sig)
    /\ exc' = None
    /\ UNCHANGED <<descr, call, regs>>

(* s.connect(h) *)
HeldConnect(h) ==
    /\ call.pc = "idle"
    /\ held # <<>>
    /\ Registrations(heap, 1) < MaxRegs
    /\ LET r == SigConnect(heap, held[1].sig, h)
       IN  /\ heap' = r.heap
           /\ exc' = r.exc
           /\ held' = Seen(held, heap, r.heap, "own")
    /\ regs' = Asked(regs, "connect", held[1].sig.function.self,
                     held[1].sig.function.func, h)
    /\ UNCHANGED <<descr, dict, call>>

(* s.disconnect(h) *)
HeldDisconnect(h) ==
    /\ call.pc = "idle"
    /\ held # <<>>
    /\ LET r == SigDisconnect(heap, held[1].sig, h)
       IN  /\ heap' = r.heap
           /\ exc' = r.exc
           /\ held' = Seen(held, heap, r.heap, "own")
    /\ regs' = Asked(regs, "disconnect", held[1].sig.function.self,
                     held[1].sig.function.func, h)
    /\ UNCHANGED <<descr, dict, call>>

(* s(args) *)
HeldInvoke(args) ==
    /\ call.pc = "idle"
    /\ held # <<>>
    /\ call' = Via(SigCallEnter(heap, held[1].sig, args), "held")
    /\ exc' = EnterExc(SigCallEnter(heap, held[1].sig, args))
    /\ UNCHANGED <<descr, dict, heap, regs, held>>

NextHeld ==
    \/ Next
    \/ \E i \in Objects, e \in Events : Access(i, e)
    \/ \E h \in Handlers : HeldConnect(h)
    \/ \E h \in Handlers : HeldDisconnect(h)
    \/ \E args \in ArgSets : HeldInvoke(args)

InitOne == StartOf({"a"}, {"progress"})

SpecHeld == InitOne /\ [][NextHeld]_vars

(* a class with the two events, progress and saved, and one instance of it *)
InitTwo == StartOf({"a"}, {"progress", "saved"})

SpecTwo == InitTwo /\ [][Next]_vars

(* A call that is in progress goes on: the program is synchronous, so the  *)
(* decorated function, the handler that is due and the return at the end   *)
(* of the loop each run when their turn has come.                          *)
Progress ==
    /\ WF_vars(\E eff \in Effects, r \in Values : BaseBody(eff, r))
    /\ WF_vars(\E eff \in Effects, r \in Values : HandlerStep(eff, r))
    /\ WF_vars(Return)

SpecFair == InitOne /\ [][Next]_vars /\ Progress
-----------------------------------------------------------------------------
(* Vocabulary of the properties *)

InDispatch == call.pc # "idle"

Self == call.sig.function.self

Evt == call.sig.function.func

(* the list being dispatched, as it is now *)
OwnList == heap[call.sig.handlers]

Callees(log) == [k \in 1..Len(log) |-> log[k].callee]

HandlerCalls(log) == SubSeq(Callees(log), 2, Len(log))

Calls(log, h) == Cardinality({k \in 1..Len(log) : log[k].callee = h})

Range(s) == {s[k] : k \in 1..Len(s)}

(* a handler changed the list being dispatched after the loop began *)
Dirty == call.others \/ \E h \in Handlers : call.selfdisc[h] > 0

(* the loop has begun: line 206 was reached *)
LoopBegun == InDispatch /\ call.idx >= 1

(* the argument lists that fit the decorated function of the dispatch:     *)
(* progress(self, first, second) or saved(self, instance)                  *)
Fitting ==
    IF Evt = "progress"
    THEN { [npos |-> 2, kw |-> {}], [npos |-> 0, kw |-> {"first", "second"}] }
    ELSE { [npos |-> 1, kw |-> {}], [npos |-> 0, kw |-> {"instance"}] }

-----------------------------------------------------------------------------
(* C1: when an invocation of an instance's event has returned and no       *)
(* handler changed the list meanwhile, the calls it made are the decorated *)
(* function, once and first, and then the handlers registered on that      *)
(* instance's event, in the order they were registered, each once, all     *)
(* with the arguments of the invocation.                                   *)
C1_RegistrationOrder ==
    (call.pc = "returned" /\ ~Dirty) =>
        /\ Callees(call.log) = <<"base">> \o regs[Self][Evt]
        /\ \A k \in 1..Len(call.log) : call.log[k].args = call.args

C1_Witness ==
    /\ call.pc = "returned"
    /\ ~Dirty
    /\ Callees(call.log) = <<"base", "h1", "h2", "h1">>

(* C2: each instance's list holds exactly the handlers registered on that  *)
(* instance's event, whatever was done to the other instance's event, and  *)
(* an invocation of an instance's event calls only handlers that were      *)
(* registered on that instance's event when its loop began.                *)
C2_Isolation ==
    /\ \A i \in Instances, e \in DOMAIN descr : HandlersOf(i, e) = regs[i][e]
    /\ LoopBegun => Range(HandlerCalls(call.log)) \subseteq Range(call.asked)

C2_Witness ==
    /\ call.pc = "returned"
    /\ Self = "a"
    /\ HandlerCalls(call.log) = <<"h1">>
    /\ HandlersOf("b", "progress") = <<"h2", "h2">>

(* C3, as stated: after an invocation in which a handler disconnected      *)
(* itself while it ran (and the handlers changed the list in no other      *)
(* way), every handler registered when the loop began has run and the      *)
(* handler is no longer in the list, so that the next invocation does not  *)
(* call it.                                                                *)
C3_SelfDisconnectGone ==
    (call.pc = "returned" /\ ~call.others) =>
        \A h \in Handlers :
            call.selfdisc[h] > 0 =>
                /\ HandlerCalls(call.log) = call.snapshot
                /\ ~Contains(OwnList, h)

(* C3, amended: a handler that disconnects itself while it runs does not   *)
(* keep the handlers registered when the loop began from running, and each *)
(* time it does so the list loses one registration of it: the list keeps   *)
(* as many registrations of it as it had when the loop began less the      *)
(* number of times it disconnected itself.                                 *)
C3_SelfDisconnect ==
    /\ (call.pc = "returned" /\ \E h \in Handlers : call.selfdisc[h] > 0) =>
           HandlerCalls(call.log) = call.snapshot
    /\ (LoopBegun /\ ~call.others) =>
           \A h \in Handlers :
               Count(OwnList, h) = Count(call.snapshot, h) - call.selfdisc[h]

C3_Witness ==
    /\ call.pc = "returned"
    /\ ~call.others
    /\ call.selfdisc = [h \in Handlers |-> IF h = "h1" THEN 1 ELSE 0]
    /\ call.snapshot = <<"h1", "h2">>
    /\ HandlerCalls(call.log) = <<"h1", "h2">>
    /\ OwnList = <<"h2">>

(* the lists and the registrations are what they were *)
ListsKept ==
    /\ \A k \in 1..Len(heap) : heap'[k] = heap[k]
    /\ \A j \in Instances, e \in DOMAIN descr : HandlersOf(j, e)' = HandlersOf(j, e)
    /\ regs' = regs

(* C4: disconnect of a handler that is not in the instance's list raises   *)
(* ValueError and leaves every list as it was, be it called by the caller  *)
(* or by the decorated function or a handler during a dispatch (which the  *)
(* error then ends).                                                       *)
C4_DisconnectAbsent ==
    [][ /\ call.pc = "idle" =>
              \A i \in Instances, e \in DOMAIN descr, h \in Handlers :
                  (~Contains(HandlersOf(i, e), h) /\ Disconnect(i, e, h)) =>
                      (exc' = "ValueError" /\ ListsKept)
        /\ call.pc \in {"base", "loop"} =>
              \A eff \in Effects :
                  ( /\ eff.op = "disconnect"
                    /\ ~Contains(HandlersOf(eff.inst, eff.evt), eff.h)
                    /\ \E r \in Values : BaseBody(eff, r) \/ HandlerStep(eff, r) ) =>
                      (exc' = "ValueError" /\ call'.pc = "raised" /\ ListsKept)
      ]_vars

C4_Witness ==
    /\ call.pc = "idle"
    /\ exc = "ValueError"
    /\ HandlersOf("a", "progress") = <<"h1", "h1">>
    /\ HandlersOf("b", "progress") = <<"h2">>

(* C5: an invocation through the class, Klass.event(instance, args), does  *)
(* what an invocation through the instance does: it fails with TypeError   *)
(* before anything runs when the arguments do not fit the decorated        *)
(* function, and only then; else it calls the decorated function and then  *)
(* the handlers registered on that instance's event when the loop began,   *)
(* in order, with the same arguments; it returns the decorated function's  *)
(* value; and it leaves each instance's list holding the handlers          *)
(* registered on it.                                                       *)
C5_ThroughClass ==
    (InDispatch /\ call.via = "class") =>
        /\ call.args \notin Fitting <=> (call.pc = "raised" /\ call.log = <<>>)
        /\ LoopBegun =>
              /\ call.snapshot = call.asked
              /\ Callees(call.log) =
                     <<"base">> \o SubSeq(call.snapshot, 1, Len(call.log) - 1)
              /\ \A k \in 1..Len(call.log) : call.log[k].args = call.args
        /\ call.pc = "returned" =>
              /\ HandlerCalls(call.log) = call.snapshot
              /\ call.retval = call.log[1].ret
        /\ \A i \in Instances, e \in DOMAIN descr : HandlersOf(i, e) = regs[i][e]

(* the same of an invocation through the instance *)
C5_ThroughInstance ==
    (InDispatch /\ call.via = "instance") =>
        (call.args \notin Fitting <=> (call.pc = "raised" /\ call.log = <<>>))

(* C6: an invocation whose arguments do not fit the decorated function's   *)
(* parameters fails with TypeError and calls nothing: neither the body of  *)
(* the decorated function nor any handler runs, however many handlers are  *)
(* connected.                                                              *)
C6_SignatureMismatch ==
    (InDispatch /\ call.args \notin Fitting) =>
        /\ call.pc = "raised"
        /\ exc = "TypeError"
        /\ call.log = <<>>

C6_Witness ==
    /\ InDispatch
    /\ call.args = [npos |-> 0, kw |-> {"second"}]
    /\ call.pc = "raised"
    /\ Len(OwnList) = 2

(* C7: when the decorated function raises, the invocation ends with that   *)
(* exception and no handler has been called.                               *)
C7_BaseFailure ==
    (InDispatch /\ Len(call.log) >= 1 /\ call.log[1].exc # None) =>
        /\ call.pc = "raised"
        /\ exc = call.log[1].exc
        /\ Callees(call.log) = <<"base">>

C7_Witness ==
    /\ call.pc = "raised"
    /\ Len(call.log) = 1
    /\ call.log[1].exc = "Error"
    /\ Len(OwnList) = 2

(* C8: when the k-th handler of a dispatch raises, the invocation ends     *)
(* with that exception; the calls made are the decorated function and the  *)
(* first k handlers of the loop, each once, none of them but the k-th      *)
(* having raised, and no handler after the k-th.                           *)
C8_HandlerFailure ==
    InDispatch =>
        \A n \in 2..Len(call.log) :
            call.log[n].exc # None =>
                /\ n = Len(call.log)
                /\ call.pc = "raised"
                /\ exc = call.log[n].exc
                /\ HandlerCalls(call.log) = SubSeq(call.snapshot, 1, n - 1)
                /\ \A m \in 1..(n - 1) : call.log[m].exc = None

C8_Witness ==
    /\ call.pc = "raised"
    /\ Len(call.snapshot) = 3
    /\ Len(call.log) = 3
    /\ call.log[3].exc = "Error"

(* C9: the value an invocation returns is the value the decorated function *)
(* returned, whatever the handlers returned and however many they are.     *)
C9_ReturnValue ==
    call.pc = "returned" =>
        /\ call.retval \in Values
        /\ call.retval = call.log[1].ret

C9_Witness ==
    /\ call.pc = "returned"
    /\ call.retval = "r1"
    /\ Len(HandlerCalls(call.log)) = 2

(* C10: connect puts the handler at the end of the list whether or not it  *)
(* is in the list already, and an invocation that returns has called each  *)
(* handler as many times as it was in the list when the loop began.        *)
C10_NoDuplicateCheck ==
    /\ [][ /\ call.pc = "idle" =>
                 \A i \in Instances, e \in DOMAIN descr, h \in Handlers :
                     Connect(i, e, h) => HandlersOf(i, e)' = Append(HandlersOf(i, e), h)
           /\ call.pc \in {"base", "loop"} =>
                 \A eff \in Effects :
                     ( /\ eff.op = "connect"
                       /\ \E r \in Values : BaseBody(eff, r) \/ HandlerStep(eff, r) ) =>
                         HandlersOf(eff.inst, eff.evt)' =
                             Append(HandlersOf(eff.inst, eff.evt), eff.h)
         ]_vars
    /\ [](call.pc = "returned" =>
             \A h \in Handlers : Calls(call.log, h) = Count(call.snapshot, h))

C10_Witness ==
    /\ call.pc = "returned"
    /\ call.snapshot = <<"h1", "h1", "h1">>
    /\ Calls(call.log, "h1") = 3

-----------------------------------------------------------------------------
(* the list object the instance of signal sig has for the signal's event *)
ListOf(sig) == dict[sig.function.self][descr[sig.function.func].key]

HasList(sig) == descr[sig.function.func].key \in DOMAIN dict[sig.function.self]

(* the handler lists the instances have *)
Attributes == {p \in Objects \X Events : descr[p[2]].key \in DOMAIN dict[p[1]]}

(* C11: every signal obtained from an access of an event on an instance,   *)
(* the one a caller kept earlier and the one of the dispatch in progress   *)
(* alike, is over the one list object the instance has for that event;     *)
(* there is one such object for each instance and event that was accessed, *)
(* none ever made in the place of another; and the contents of that list   *)
(* are the registrations asked for through any of the accesses and not     *)
(* taken back, none when nothing was asked for yet.                        *)
C11_SameList ==
    /\ held # <<>> => HasList(held[1].sig) /\ held[1].sig.handlers = ListOf(held[1].sig)
    /\ (InDispatch /\ call.sig.handlers # 0) =>
           HasList(call.sig) /\ call.sig.handlers = ListOf(call.sig)
    /\ Len(heap) = Cardinality(Attributes)
    /\ \A i \in Objects, e \in Events : HandlersOf(i, e) = regs[i][e]

(* a signal was kept, its list was changed through it and through later    *)
(* accesses, and a call of the kept signal has run the two handlers that   *)
(* are registered                                                          *)
C11_Witness ==
    /\ held # <<>>
    /\ held[1].own
    /\ held[1].others
    /\ call.pc = "returned"
    /\ call.via = "held"
    /\ HandlerCalls(call.log) = <<"h1", "h2">>
    /\ HandlersOf(Self, Evt) = <<"h1", "h2">>

-----------------------------------------------------------------------------
(* list new is list old without the first of its elements equal to h, the  *)
(* other elements where they were with respect to one another              *)
FirstTakenOff(old, new, h) ==
    \E k \in 1..Len(old) :
        /\ old[k] = h
        /\ \A j \in 1..(k - 1) : old[j] # h
        /\ Len(new) = Len(old) - 1
        /\ \A j \in 1..Len(new) : new[j] = IF j < k THEN old[j] ELSE old[j + 1]

(* C12: disconnect(h) on a list that contains h, called by the caller or   *)
(* by the decorated function or a handler during a dispatch, takes off the *)
(* first registration of h in the order of registration and no other: the  *)
(* rest, later registrations of h among them, stay in their order.  A      *)
(* dispatch that returns undisturbed has called each handler once for      *)
(* every registration of it that is left in the list.                      *)
C12_RemovesFirst ==
    /\ [][ /\ call.pc = "idle" =>
                 \A i \in Objects, e \in Events, h \in Handlers :
                     (Contains(HandlersOf(i, e), h) /\ Disconnect(i, e, h)) =>
                         FirstTakenOff(HandlersOf(i, e), HandlersOf(i, e)', h)
           /\ call.pc \in {"base", "loop"} =>
                 \A eff \in Effects :
                     ( /\ eff.op = "disconnect"
                       /\ Contains(HandlersOf(eff.inst, eff.evt), eff.h)
                       /\ \E r \in Values : BaseBody(eff, r) \/ HandlerStep(eff, r) ) =>
                         FirstTakenOff(HandlersOf(eff.inst, eff.evt),
                                       HandlersOf(eff.inst, eff.evt)', eff.h)
         ]_vars
    /\ []((call.pc = "returned" /\ ~Dirty) =>
             \A h \in Handlers : Calls(call.log, h) = Count(OwnList, h))

(* h1 was registered before and after h2; it took one registration of      *)
(* itself off during a dispatch, and the one after h2 is left              *)
C12_Witness ==
    /\ LoopBegun
    /\ call.snapshot = <<"h1", "h2", "h1">>
    /\ call.selfdisc["h1"] = 1
    /\ call.selfdisc["h2"] = 0
    /\ ~call.others
    /\ OwnList = <<"h2", "h1">>

-----------------------------------------------------------------------------
(* the handlers called so far are the first of list s, in its order *)
CalledFrom(s) ==
    /\ Len(HandlerCalls(call.log)) <= Len(s)
    /\ HandlerCalls(call.log) = SubSeq(s, 1, Len(HandlerCalls(call.log)))

(* C13 as stated: the handlers a call invokes are the contents the list    *)
(* had when the call was made, whatever the code the call runs connects or *)
(* disconnects: the list the loop goes over is the list as it was before   *)
(* the decorated function ran, and a call that returns has called exactly  *)
(* its handlers.                                                           *)
C13_SnapshotAtCall ==
    /\ [][(call.pc = "base" /\ call'.pc = "loop") =>
              call'.snapshot = HandlersOf(Self, Evt)]_vars
    /\ [](LoopBegun => CalledFrom(call.snapshot))
    /\ [](call.pc = "returned" => HandlerCalls(call.log) = call.snapshot)

(* C13, amended: the handlers a call invokes are the contents the list has *)
(* when the decorated function has returned and the loop begins, what the  *)
(* decorated function connected or disconnected included; nothing a        *)
(* handler connects or disconnects during the loop changes which handlers  *)
(* the call invokes: they are called in the order of that list, and a call *)
(* that returns has called all of them and no other.                       *)
C13_SnapshotAtLoop ==
    /\ [][(call.pc = "base" /\ call'.pc = "loop") =>
              call'.snapshot = HandlersOf(Self, Evt)']_vars
    /\ [][(call.pc = "loop" /\ call'.pc # "idle") =>
              /\ call'.snapshot = call.snapshot
              /\ (call'.pc = "returned" \/ Len(call'.log) = Len(call.log) + 1)]_vars
    /\ [](LoopBegun => CalledFrom(call.snapshot))
    /\ [](call.pc = "returned" => HandlerCalls(call.log) = call.snapshot)

(* a call has returned after its handlers changed the list: it called h1   *)
(* and h2, the list it began the loop with, and the list is another now    *)
C13_Witness ==
    /\ call.pc = "returned"
    /\ Dirty
    /\ call.snapshot = <<"h1", "h2">>
    /\ HandlerCalls(call.log) = <<"h1", "h2">>
    /\ OwnList # call.snapshot

-----------------------------------------------------------------------------
(* the list objects there are keep their contents, and the instances keep  *)
(* the lists they have                                                     *)
ListObjectsKept ==
    /\ \A k \in 1..Len(heap) : heap'[k] = heap[k]
    /\ \A i \in Objects : \A key \in DOMAIN dict[i] :
           key \in DOMAIN dict'[i] /\ dict'[i][key] = dict[i][key]

(* the last call of the dispatch was of a handler, which raised *)
HandlerFailed ==
    /\ call.pc = "raised"
    /\ Len(call.log) >= 2
    /\ call.log[Len(call.log)].exc # None

(* C14: a step in which no connect or disconnect is asked for, be it an    *)
(* attribute access, the entry of an invocation, the run of the decorated  *)
(* function or of a handler that returns or raises, or the end of the      *)
(* invocation, leaves every handler list with the contents it had and      *)
(* every instance with the list it had.  So when a handler has failed in a *)
(* dispatch whose handlers did not change the list, the handler is still   *)
(* in the list, which is what the next call goes over.                     *)
C14_OnlyConnectDisconnect ==
    /\ [][regs' = regs => ListObjectsKept]_vars
    /\ []((HandlerFailed /\ ~Dirty) =>
             /\ Contains(OwnList, call.log[Len(call.log)].callee)
             /\ OwnList = call.snapshot)

(* a signal was obtained from an instance that has a list, and a call of   *)
(* the event has ended with the failure of h1: h1 and h2 are registered    *)
(* as before                                                               *)
C14_Witness ==
    /\ held # <<>>
    /\ ~held[1].own
    /\ ~held[1].others
    /\ HandlerFailed
    /\ call.log[Len(call.log)].callee = "h1"
    /\ call.log[Len(call.log)].exc = "Error"
    /\ OwnList = <<"h1", "h2">>
    /\ regs[Self][Evt] = <<"h1", "h2">>

-----------------------------------------------------------------------------
(* C15: when a handler connects a handler to the list being dispatched,    *)
(* the handler goes to the end of the list and the copy the loop goes over *)
(* stays as it was; a handler that is in the list but was not when the     *)
(* loop began is not called in this dispatch; and a dispatch that returns  *)
(* undisturbed has called the handlers of the list in the list's order, so *)
(* that the next dispatch calls the handler that was added, last.          *)
C15_ConnectDuringDispatch ==
    /\ [][call.pc = "loop" =>
              \A eff \in Effects :
                  ( /\ eff.op = "connect"
                    /\ OnOwnList(call, eff)
                    /\ \E r \in Values : HandlerStep(eff, r) ) =>
                      /\ OwnList' = Append(OwnList, eff.h)
                      /\ call'.snapshot = call.snapshot]_vars
    /\ [](LoopBegun =>
             \A h \in Handlers :
                 (Contains(OwnList, h) /\ ~Contains(call.snapshot, h)) =>
                     Calls(call.log, h) = 0)
    /\ []((call.pc = "returned" /\ ~Dirty) => HandlerCalls(call.log) = OwnList)

(* h1, the one handler registered, connected h2 during the dispatch: the   *)
(* dispatch has returned, h2 is last in the list and was not called        *)
C15_Witness ==
    /\ call.pc = "returned"
    /\ call.others
    /\ call.snapshot = <<"h1">>
    /\ HandlerCalls(call.log) = <<"h1">>
    /\ OwnList = <<"h1", "h2">>

-----------------------------------------------------------------------------
(* the handler being called disconnects, from the list being dispatched,   *)
(* another handler that the loop has still to call                         *)
DisconnectsLater(eff) ==
    /\ call.pc = "loop"
    /\ call.idx <= Len(call.snapshot)
    /\ eff.op = "disconnect"
    /\ OnOwnList(call, eff)
    /\ eff.h # call.snapshot[call.idx]
    /\ \E k \in (call.idx + 1)..Len(call.snapshot) : call.snapshot[k] = eff.h
    /\ Contains(OwnList, eff.h)
    /\ \E r \in Values : HandlerStep(eff, r)

(* C16 as stated: when an earlier handler disconnects a later handler hj   *)
(* during a dispatch, hj is not in the list any more, though the dispatch  *)
(* still calls it, and so the next dispatch does not call it.              *)
C16_DisconnectedLaterGone ==
    /\ [][call.pc = "loop" =>
              \A eff \in Effects :
                  DisconnectsLater(eff) =>
                      /\ call'.snapshot = call.snapshot
                      /\ ~Contains(OwnList', eff.h)]_vars
    /\ [](LoopBegun => CalledFrom(call.snapshot))
    /\ [](call.pc = "returned" => HandlerCalls(call.log) = call.snapshot)

(* C16, amended: when an earlier handler disconnects a later handler hj    *)
(* during a dispatch, one registration of hj, the first, leaves the list   *)
(* and the copy the loop goes over stays as it was: the dispatch still     *)
(* calls hj for every registration it had when the loop began.  hj is out  *)
(* of the list, and the next dispatch does not call it, when it was        *)
(* registered once; registered more than once, it stays in the list and    *)
(* the next dispatch calls it once for every registration that is left.    *)
C16_DisconnectedLater ==
    /\ [][call.pc = "loop" =>
              \A eff \in Effects :
                  DisconnectsLater(eff) =>
                      /\ call'.snapshot = call.snapshot
                      /\ FirstTakenOff(OwnList, OwnList', eff.h)
                      /\ Contains(OwnList', eff.h) = (Count(OwnList, eff.h) > 1)]_vars
    /\ [](LoopBegun => CalledFrom(call.snapshot))
    /\ [](call.pc = "returned" =>
             /\ HandlerCalls(call.log) = call.snapshot
             /\ ~Dirty => \A h \in Handlers : Calls(call.log, h) = Count(OwnList, h))

(* h1 disconnected h2, which was to be called after it: the dispatch has   *)
(* called h2 all the same and h2 is not in the list                        *)
C16_Witness ==
    /\ call.pc = "returned"
    /\ call.others
    /\ \A h \in Handlers : call.selfdisc[h] = 0
    /\ call.snapshot = <<"h1", "h2">>
    /\ HandlerCalls(call.log) = <<"h1", "h2">>
    /\ OwnList = <<"h1">>

-----------------------------------------------------------------------------
(* the handler calls the loop has still to make, at most *)
ToCall == Len(call.snapshot) + 1 - call.idx

(* C17: a dispatch calls no more handlers than the list had entries when   *)
(* the loop began, whatever the handlers connect meanwhile: the number of  *)
(* calls still to make is never negative, every handler call lowers it by  *)
(* one or ends the dispatch, and a dispatch that has begun comes to its    *)
(* end, returning or raising.                                              *)
C17_BoundedDispatch ==
    /\ [](LoopBegun =>
             /\ ToCall >= 0
             /\ Len(HandlerCalls(call.log)) <= Len(call.snapshot)
             /\ Len(HandlerCalls(call.log)) + ToCall <= Len(call.snapshot) + 1)
    /\ [][(call.pc = "loop" /\ call'.pc = "loop") =>
              (ToCall' = ToCall - 1 /\ call'.snapshot = call.snapshot)]_vars
    /\ (call.pc \in {"base", "loop"}) ~> (call.pc \in {"returned", "raised"})

(* h1, the one handler registered, connected itself once more while it     *)
(* ran: the dispatch has returned after the one call of h1                 *)
C17_Witness ==
    /\ call.pc = "returned"
    /\ call.others
    /\ call.snapshot = <<"h1">>
    /\ OwnList = <<"h1", "h1">>
    /\ HandlerCalls(call.log) = <<"h1">>

-----------------------------------------------------------------------------
(* C18: the events of one instance have a list object each, and the        *)
(* contents of the list of an event are the registrations asked for on     *)
(* that event and not taken back, whatever was connected, disconnected or  *)
(* invoked on the other event; a dispatch of an event calls handlers       *)
(* registered on that event only, and all of them and no other when it     *)
(* returns undisturbed.                                                    *)
C18_SeparateEvents ==
    /\ \A i \in Objects : \A e1, e2 \in Events :
           (e1 # e2 /\ <<i, e1>> \in Attributes /\ <<i, e2>> \in Attributes) =>
               dict[i][descr[e1].key] # dict[i][descr[e2].key]
    /\ \A i \in Objects, e \in Events : HandlersOf(i, e) = regs[i][e]
    /\ LoopBegun => CalledFrom(call.asked)
    /\ (call.pc = "returned" /\ ~Dirty) => HandlerCalls(call.log) = regs[Self][Evt]

(* h1 is registered on progress and h2 on saved, both of instance a: a     *)
(* call of a.progress has returned having called h1 alone, and h2 is       *)
(* registered on saved as before                                           *)
C18_Witness ==
    /\ call.pc = "returned"
    /\ Evt = "progress"
    /\ regs["a"]["progress"] = <<"h1">>
    /\ regs["a"]["saved"] = <<"h2">>
    /\ HandlerCalls(call.log) = <<"h1">>
    /\ HandlersOf("a", "saved") = <<"h2">>
====
